---- MODULE Spec2Model ----
(***************************************************************************)
(* State-machine model of src/components/WeatherApp.tsx: the WeatherApp    *)
(* component (React state city / weather / loading / error), its           *)
(* fetchWeather handler with the two awaited network calls, the Enter-key  *)
(* handler, and the conditional rendering of the panels.                   *)
(*                                                                         *)
(* Each action is one run-to-completion segment of the JavaScript event    *)
(* loop: an event handler up to its first await, or the continuation that  *)
(* runs when an awaited fetch()/json() pair settles.  The state setters    *)
(* called inside one segment are committed together (React batches the     *)
(* updates of one segment into one render).                                *)
(*                                                                         *)
(* Units: temperature_2m, apparent_temperature and wind_speed_10m are      *)
(* carried in tenths (21.6 is 216); weather_code, relative_humidity_2m and *)
(* every field of the stored WeatherData are carried in units.             *)
(***************************************************************************)
EXTENDS Integers, Sequences, FiniteSets

VARIABLES
  city,         \* useState("")   : the query text, a sequence of characters
  weather,      \* useState(null) : Null or a WeatherData record
  loading,      \* useState(false)
  error,        \* useState("")
  lookups,      \* the fetchWeather invocations suspended at an await
  weatherCode,  \* local of the code-to-condition mapping (line 70)
  condition,    \* local (line 73)
  description,  \* local (line 74)
  mapPc         \* position of the mapping: "declared" (line 74) or "mapped" (line 94)

appVars == <<city, weather, loading, error, lookups>>
mapVars == <<weatherCode, condition, description, mapPc>>
vars == <<city, weather, loading, error, lookups, weatherCode, condition, description, mapPc>>

----------------------------------------------------------------------------
(* Bounds *)

\* fetchWeather invocations that may be suspended at the same time
MaxInFlight == 2
\* weather codes below 0 and above 99 that the mapping is run on
BelowRange == 5
AboveRange == 5

Slots == 1..MaxInFlight
Codes == (0 - BelowRange)..(99 + AboveRange)

----------------------------------------------------------------------------
(* JavaScript values *)

Undefined == [t |-> "undefined"]
JsNull == [t |-> "null"]
NaN == [t |-> "NaN"]
Num(n) == [t |-> "number", v |-> n]
Arr(s) == [t |-> "array", elems |-> s]

\* weatherCode === n
StrictEq(x, n) == x = Num(n)
\* weatherCode <= n  (a comparison with undefined or NaN is false)
LessEq(x, n) == x.t = "number" /\ x.v <= n

\* Math.round on a value in tenths: the nearest integer, halves toward +infinity;
\* Math.round(undefined) is NaN
MathRoundTrunc(x) == IF x.t = "number"
                     THEN Num(IF x.v >= 0 THEN x.v \div 10 ELSE 0 - ((0 - x.v) \div 10))
                     ELSE NaN
MathRound(x) == IF x.t = "number" THEN Num((x.v + 5) \div 10) ELSE NaN

Whitespace == {" ", "\t"}

RECURSIVE TrimStart(_)
TrimStart(s) == IF s = <<>> THEN s
                ELSE IF Head(s) \in Whitespace THEN TrimStart(Tail(s)) ELSE s

RECURSIVE TrimEnd(_)
TrimEnd(s) == IF s = <<>> THEN s
              ELSE IF s[Len(s)] \in Whitespace THEN TrimEnd(SubSeq(s, 1, Len(s) - 1)) ELSE s

\* String.prototype.trim
Trim(s) == TrimEnd(TrimStart(s))

\* !city.trim()  (the empty string is the only falsy string)
IsBlankNoTrim(s) == s = <<>>
IsBlank(s) == Trim(s) = <<>>

\* encodeURIComponent: letters are kept, a space becomes %20, a tab %09
EncodeChar(c) == IF c = " " THEN "%20" ELSE IF c = "\t" THEN "%09" ELSE c
EncodeURIComponent(s) == [k \in 1..Len(s) |-> EncodeChar(s[k])]

----------------------------------------------------------------------------
(* Inputs: what the user types and what the two endpoints answer *)

Queries == { <<>>, <<" ">>, <<" ", "\t">>, <<"a">>, <<" ", "b", " ">> }

Keys == {"Enter", "a"}

Paris == [t |-> "object", latitude |-> 49, longitude |-> 2, name |-> "Paris", country |-> "France"]
Rome == [t |-> "object", latitude |-> 42, longitude |-> 12, name |-> "Rome", country |-> "Italy"]
Places == {Paris, Rome}

\* geoData: the parsed body of the geocoding answer
GeoResultLists == {<<>>, <<JsNull>>} \cup {<<p>> : p \in Places}
                    \cup {<<p, q>> : p \in Places, q \in Places}
GeoBodies == {JsNull, [t |-> "object", results |-> Undefined]}
               \cup {[t |-> "object", results |-> Arr(s)] : s \in GeoResultLists}

\* a settled fetch()/json() pair: fetch rejects, json() rejects, or a parsed body
Rejected == [kind |-> "reject"]
NotJson == [kind |-> "notjson"]
Json(b) == [kind |-> "json", body |-> b]
GeoOutcomes == {Rejected, NotJson} \cup {Json(b) : b \in GeoBodies}

Current(t, a, h, w, c) ==
  [t |-> "object", temperature_2m |-> t, apparent_temperature |-> a,
   relative_humidity_2m |-> h, wind_speed_10m |-> w, weather_code |-> c]

\* the codes the forecast endpoint answers with in the application runs
SampleCodes == {-1, 0, 61, 100}
Readings == { <<216, 194, 55, 117>>, <<-25, -26, 100, 5>> }
EmptyCurrent == Current(Undefined, Undefined, Undefined, Undefined, Undefined)
Currents == {Undefined, EmptyCurrent}
              \cup {Current(Num(r[1]), Num(r[2]), Num(r[3]), Num(r[4]), Num(c)) :
                      r \in Readings, c \in SampleCodes}
ForecastBodies == {JsNull} \cup {[t |-> "object", current |-> c] : c \in Currents}
ForecastOutcomes == {Rejected, NotJson} \cup {Json(b) : b \in ForecastBodies}

----------------------------------------------------------------------------
(* The code-to-condition mapping, lines 73-94 *)

MapWeatherCodeStrict(code) ==
  IF StrictEq(code, 0) THEN [condition |-> "Clear", description |-> "Clear sky"]
  ELSE IF code.t = "number" /\ code.v < 3 THEN [condition |-> "Clouds", description |-> "Partly cloudy"]
  ELSE IF LessEq(code, 49) THEN [condition |-> "Fog", description |-> "Foggy"]
  ELSE IF LessEq(code, 69) THEN [condition |-> "Rain", description |-> "Rainy"]
  ELSE IF LessEq(code, 79) THEN [condition |-> "Snow", description |-> "Snowy"]
  ELSE IF LessEq(code, 99) THEN [condition |-> "Thunderstorm", description |-> "Thunderstorm"]
  ELSE [condition |-> "Clear", description |-> "Clear sky"]

MapWeatherCode(code) ==
  IF StrictEq(code, 0) THEN [condition |-> "Clear", description |-> "Clear sky"]
  ELSE IF LessEq(code, 3) THEN [condition |-> "Clouds", description |-> "Partly cloudy"]
  ELSE IF LessEq(code, 49) THEN [condition |-> "Fog", description |-> "Foggy"]
  ELSE IF LessEq(code, 69) THEN [condition |-> "Rain", description |-> "Rainy"]
  ELSE IF LessEq(code, 79) THEN [condition |-> "Snow", description |-> "Snowy"]
  ELSE IF LessEq(code, 99) THEN [condition |-> "Thunderstorm", description |-> "Thunderstorm"]
  ELSE [condition |-> "Clear", description |-> "Clear sky"]

----------------------------------------------------------------------------
(* The component state *)

Null == [t |-> "null"]
ErrorMessage == "Could not find weather for this city. Please try again."

\* a slot holding no suspended invocation
NoLookup == [pc |-> "free"]

InFlight(i) == lookups[i].pc # "free"
InFlightSet == {i \in Slots : InFlight(i)}

\* the state a Failure leaves: message shown, no card, not loading
Failure == error # "" /\ weather = Null /\ ~loading

AppInit ==
  /\ city = <<>>
  /\ weather = Null
  /\ loading = FALSE
  /\ error = ""
  /\ lookups = [i \in Slots |-> NoLookup]

Init ==
  /\ AppInit
  /\ weatherCode = Num(0)
  /\ condition = "Clear"
  /\ description = "Clear sky"
  /\ mapPc = "mapped"

----------------------------------------------------------------------------
(* Rendering, lines 135-202 *)

\* disabled={loading}
ButtonDisabled == loading
\* {loading ? "..." : "Go"}
ShowLoading == loading
\* {error && (...)}
ShowError == error # ""
\* {weather && (...)}
ShowCard == weather # Null
\* {!weather && !loading && (...)}
ShowEmptyIgnoresLoading == weather = Null
ShowEmpty == weather = Null /\ ~loading

----------------------------------------------------------------------------
(* fetchWeather, lines 44-112 *)

FetchWeatherClearsWeather ==
  IF IsBlank(city)
  THEN UNCHANGED vars
  ELSE \E i \in Slots :
         /\ ~InFlight(i)
         /\ \A j \in Slots : j < i => InFlight(j)
         /\ loading' = TRUE
         /\ error' = ""
         /\ weather' = Null
         /\ lookups' = [j \in Slots |->
                          IF j = i
                          THEN [pc |-> "geo",
                                request |-> [endpoint |-> "geocoding",
                                             name |-> EncodeURIComponent(city),
                                             count |-> 1],
                                fromFailure |-> Failure,
                                overlapped |-> InFlightSet # {}]
                          ELSE IF InFlight(j)
                               THEN [lookups[j] EXCEPT !.overlapped = TRUE]
                               ELSE lookups[j]]
         /\ UNCHANGED city
         /\ UNCHANGED mapVars

\* lines 45-53: the blank check, the two setters, and the geocoding request.
\* fromFailure and overlapped are history fields: whether the component was
\* in Failure when this invocation started, and whether another invocation
\* has been outstanding at some time during this one.
FetchWeather ==
  IF IsBlank(city)
  THEN UNCHANGED vars
  ELSE \E i \in Slots :
         /\ ~InFlight(i)
         /\ \A j \in Slots : j < i => InFlight(j)
         /\ loading' = TRUE
         /\ error' = ""
         /\ lookups' = [j \in Slots |->
                          IF j = i
                          THEN [pc |-> "geo",
                                request |-> [endpoint |-> "geocoding",
                                             name |-> EncodeURIComponent(city),
                                             count |-> 1],
                                fromFailure |-> Failure,
                                overlapped |-> InFlightSet # {}]
                          ELSE IF InFlight(j)
                               THEN [lookups[j] EXCEPT !.overlapped = TRUE]
                               ELSE lookups[j]]
         /\ UNCHANGED <<city, weather>>
         /\ UNCHANGED mapVars

\* lines 106-111: catch and finally
CatchKeepsWeather(i) ==
  /\ error' = ErrorMessage
  /\ loading' = FALSE
  /\ lookups' = [lookups EXCEPT ![i] = NoLookup]
  /\ UNCHANGED <<city, weather>>
  /\ UNCHANGED mapVars

CatchKeepsLoading(i) ==
  /\ error' = ErrorMessage
  /\ weather' = Null
  /\ lookups' = [lookups EXCEPT ![i] = NoLookup]
  /\ UNCHANGED <<city, loading>>
  /\ UNCHANGED mapVars

Catch(i) ==
  /\ error' = ErrorMessage
  /\ weather' = Null
  /\ loading' = FALSE
  /\ lookups' = [lookups EXCEPT ![i] = NoLookup]
  /\ UNCHANGED city
  /\ UNCHANGED mapVars

\* lines 52-61: what makes the geocoding stage throw
GeoThrows(o) ==
  \/ o.kind = "reject"
  \/ o.kind = "notjson"
  \/ /\ o.kind = "json"
     /\ \/ o.body = JsNull
        \/ o.body.results = Undefined
        \/ Len(o.body.results.elems) = 0
        \/ o.body.results.elems[1] = JsNull

\* line 61: geoData.results[0]
GeoLast(o) == o.body.results.elems[Len(o.body.results.elems)]
GeoFirst(o) == o.body.results.elems[1]

\* lines 52-66: the geocoding answer arrives; the forecast request is issued
GeoResponse(i, o) ==
  /\ lookups[i].pc = "geo"
  /\ IF GeoThrows(o)
     THEN Catch(i)
     ELSE LET first == GeoFirst(o) IN
          /\ lookups' = [lookups EXCEPT ![i] =
                           [pc |-> "forecast",
                            request |-> [endpoint |-> "forecast",
                                         latitude |-> first.latitude,
                                         longitude |-> first.longitude],
                            name |-> first.name,
                            country |-> first.country,
                            fromFailure |-> lookups[i].fromFailure,
                            overlapped |-> lookups[i].overlapped]]
          /\ UNCHANGED <<city, weather, loading, error>>
          /\ UNCHANGED mapVars

\* lines 64-70: what makes the forecast stage throw
ForecastThrows(o) ==
  \/ o.kind = "reject"
  \/ o.kind = "notjson"
  \/ /\ o.kind = "json"
     /\ \/ o.body = JsNull
        \/ o.body.current = Undefined

WeatherDataSwapped(name, country, current) ==
  LET m == MapWeatherCode(current.weather_code) IN
  [city |-> country,
   country |-> name,
   temperature |-> MathRound(current.temperature_2m),
   feelsLike |-> MathRound(current.apparent_temperature),
   humidity |-> current.relative_humidity_2m,
   windSpeed |-> MathRound(current.wind_speed_10m),
   condition |-> m.condition,
   description |-> m.description]

\* lines 96-105: the WeatherData object
WeatherData(name, country, current) ==
  LET m == MapWeatherCode(current.weather_code) IN
  [city |-> name,
   country |-> country,
   temperature |-> MathRound(current.temperature_2m),
   feelsLike |-> MathRound(current.apparent_temperature),
   humidity |-> current.relative_humidity_2m,
   windSpeed |-> MathRound(current.wind_speed_10m),
   condition |-> m.condition,
   description |-> m.description]

\* lines 64-111: the forecast answer arrives; the invocation ends
ForecastResponse(i, o) ==
  /\ lookups[i].pc = "forecast"
  /\ IF ForecastThrows(o)
     THEN Catch(i)
     ELSE /\ weather' = WeatherData(lookups[i].name, lookups[i].country, o.body.current)
          /\ loading' = FALSE
          /\ lookups' = [lookups EXCEPT ![i] = NoLookup]
          /\ UNCHANGED <<city, error>>
          /\ UNCHANGED mapVars

----------------------------------------------------------------------------
(* The user's events *)

SetCityClearsError(text) ==
  /\ city' = text
  /\ error' = ""
  /\ UNCHANGED <<weather, loading, lookups>>
  /\ UNCHANGED mapVars

\* line 131: onChange
SetCity(text) ==
  /\ city' = text
  /\ UNCHANGED <<weather, loading, error, lookups>>
  /\ UNCHANGED mapVars

\* lines 135-137: onClick, on a button that is disabled while loading
ClickGo ==
  /\ ~ButtonDisabled
  /\ FetchWeather

\* lines 114-118: onKeyPress of the input
HandleKeyPress(key) ==
  IF key = "Enter" THEN FetchWeather ELSE UNCHANGED vars

Next ==
  \/ \E text \in Queries : SetCity(text)
  \/ ClickGo
  \/ \E key \in Keys : HandleKeyPress(key)
  \/ \E i \in Slots, o \in GeoOutcomes : GeoResponse(i, o)
  \/ \E i \in Slots, o \in ForecastOutcomes : ForecastResponse(i, o)

Spec == Init /\ [][Next]_vars

----------------------------------------------------------------------------
(* The mapping alone, run on every code of Codes *)

InitMapping ==
  /\ AppInit
  /\ weatherCode \in {Num(c) : c \in Codes}
  /\ condition = "Clear"
  /\ description = "Clear sky"
  /\ mapPc = "declared"

RunMapping ==
  /\ mapPc = "declared"
  /\ condition' = MapWeatherCode(weatherCode).condition
  /\ description' = MapWeatherCode(weatherCode).description
  /\ mapPc' = "mapped"
  /\ UNCHANGED weatherCode
  /\ UNCHANGED appVars

NextMapping == RunMapping

SpecMapping == InitMapping /\ [][NextMapping]_vars

----------------------------------------------------------------------------
(* Section 4.2 / 5: suppression of overlapping lookups *)

\* C1: while a lookup is in flight a further submit (button or Enter) issues
\* no request: at most one fetchWeather invocation is outstanding in every
\* reachable state.
C1_AtMostOneLookup == Cardinality(InFlightSet) <= 1

----------------------------------------------------------------------------
(* Section 4.1 step 1: the blank check *)

Submit == ClickGo \/ HandleKeyPress("Enter")

\* C2: a submit (button or Enter) with an empty or whitespace-only query
\* issues no request and leaves loading, weather and error as they were.
C2_BlankSubmitNoOp ==
  [][(Submit /\ \A k \in 1..Len(city) : city[k] \in Whitespace)
       => UNCHANGED <<loading, weather, error, lookups>>]_vars

\* a whitespace-only, non-empty query is in the input while an earlier error
\* is shown and the button is enabled
C2_Witness ==
  /\ city # <<>>
  /\ \A k \in 1..Len(city) : city[k] \in Whitespace
  /\ error # ""
  /\ ~ButtonDisabled

----------------------------------------------------------------------------
(* Section 4.1 step 2: no geocoding match *)

NoResults(o) ==
  /\ o.kind = "json"
  /\ o.body # JsNull
  /\ \/ o.body.results = Undefined
     \/ /\ o.body.results.t = "array"
        /\ o.body.results.elems = <<>>

\* C3: when the geocoding answer of a lookup has no results (results missing
\* or empty) the lookup issues no forecast request and ends in Failure: the
\* generic message, weather null, loading false.
C3_NoResultsFails ==
  [][\A i \in Slots, o \in GeoOutcomes :
       (GeoResponse(i, o) /\ NoResults(o))
         => /\ error' = ErrorMessage
            /\ weather' = Null
            /\ loading' = FALSE
            /\ lookups'[i] = NoLookup]_vars

\* the state a failed lookup leaves: the message, no card, not loading, and
\* nothing outstanding
C3_Witness ==
  /\ error = ErrorMessage
  /\ weather = Null
  /\ ~loading
  /\ InFlightSet = {}

----------------------------------------------------------------------------
(* Section 4.1 step 5: the ordered-range table *)

\* the table of section 4.1, as ranges
TableCondition(c) ==
  IF c = 0 THEN "Clear"
  ELSE IF c \in 1..3 THEN "Clouds"
  ELSE IF c \in 4..49 THEN "Fog"
  ELSE IF c \in 50..69 THEN "Rain"
  ELSE IF c \in 70..79 THEN "Snow"
  ELSE "Thunderstorm"

TableDescription(cond) ==
  IF cond = "Clear" THEN "Clear sky"
  ELSE IF cond = "Clouds" THEN "Partly cloudy"
  ELSE IF cond = "Fog" THEN "Foggy"
  ELSE IF cond = "Rain" THEN "Rainy"
  ELSE IF cond = "Snow" THEN "Snowy"
  ELSE "Thunderstorm"

\* C4: for every integer code c in 0..99 the mapping gives the category of
\* the ordered-range table, and the description always matches the category.
C4_MappingMatchesTable ==
  mapPc = "mapped" =>
    /\ weatherCode.v \in 0..99 => condition = TableCondition(weatherCode.v)
    /\ description = TableDescription(condition)

\* the mapping has run on 45, inside the Fog range
C4_Witness ==
  /\ mapPc = "mapped"
  /\ weatherCode = Num(45)
  /\ condition = "Fog"
  /\ description = "Foggy"

\* C10: every integer code outside 0..99, above 99 or negative, is mapped to
\* Clear with the description "Clear sky".
C10_OutsideIsClear ==
  (mapPc = "mapped" /\ weatherCode.v \notin 0..99)
    => (condition = "Clear" /\ description = "Clear sky")

----------------------------------------------------------------------------
(* Section 4.1 step 7 / section 7: one generic failure *)

\* section 6: the shape each endpoint is expected to answer with
IsNumber(x) == x.t = "number"

WellFormedGeo(o) ==
  /\ o.kind = "json"
  /\ o.body # JsNull
  /\ o.body.results # Undefined
  /\ \A k \in 1..Len(o.body.results.elems) : o.body.results.elems[k] \in Places

WellFormedForecast(o) ==
  /\ o.kind = "json"
  /\ o.body # JsNull
  /\ o.body.current # Undefined
  /\ IsNumber(o.body.current.temperature_2m)
  /\ IsNumber(o.body.current.apparent_temperature)
  /\ IsNumber(o.body.current.relative_humidity_2m)
  /\ IsNumber(o.body.current.wind_speed_10m)
  /\ IsNumber(o.body.current.weather_code)

\* a failure cause at the geocoding call: network failure, malformed answer,
\* or zero results
GeoFailure(o) == ~WellFormedGeo(o) \/ NoResults(o)
\* a failure cause at the forecast call: network failure or malformed answer
ForecastFailure(o) == ~WellFormedForecast(o)

\* C5: every failure inside a lookup (network failure of either call, a
\* malformed or unexpected answer at either call, zero geocoding results)
\* ends with the single generic message and weather null.
C5_EveryFailureIsGeneric ==
  [][/\ \A i \in Slots, o \in GeoOutcomes :
          (GeoResponse(i, o) /\ GeoFailure(o))
            => (error' = ErrorMessage /\ weather' = Null)
     /\ \A i \in Slots, o \in ForecastOutcomes :
          (ForecastResponse(i, o) /\ ForecastFailure(o))
            => (error' = ErrorMessage /\ weather' = Null)]_vars

----------------------------------------------------------------------------
(* Section 3 / 4.3: the panels *)

PanelsShown == {p \in {"empty", "loading", "card"} :
                  \/ p = "empty" /\ ShowEmpty
                  \/ p = "loading" /\ ShowLoading
                  \/ p = "card" /\ ShowCard}

C7_ErrorHidesCard == ShowError => ~ShowCard

----------------------------------------------------------------------------
(* Section 8: resubmitting after a Failure *)

Loading == loading /\ error = ""
Success == weather # Null /\ error = "" /\ ~loading

\* C8: from a Failure state a submit with a non-blank query clears the error
\* and sets loading; the state stays Loading (loading true, error empty)
\* until that lookup completes, and is then Success (weather set, error
\* empty) or Failure (error set, weather null).
C8_FailureThenLoading ==
  [][\A i \in Slots :
       \* the submit, from Failure
       /\ (Failure /\ ~InFlight(i) /\ InFlight(i)') => Loading'
       \* still outstanding: still Loading
       /\ (InFlight(i)' /\ lookups'[i].fromFailure) => Loading'
       \* completed: Success or Failure
       /\ (InFlight(i) /\ lookups[i].fromFailure /\ ~InFlight(i)')
            => (Success' \/ Failure')]_vars

----------------------------------------------------------------------------
(* Section 4.1 step 6: the normalized result *)

ExampleCurrent == Current(Num(216), Num(194), Num(55), Num(117), Num(61))

\* r is an integer nearest to the value t given in tenths
Nearest(r, t) == r.t = "number" /\ (10 * r.v - t.v) \in -5..5

\* C9: on a successful two-call chain the stored result holds temperature,
\* feels-like temperature and wind speed rounded to the nearest integer,
\* humidity unchanged, and category and description from the weather code;
\* for 21.6, 19.4, 55, 11.7 and code 61 it is 22, 19, 55, 12, "Rain", "Rainy".
C9_NormalizedResult ==
  [][\A i \in Slots, o \in ForecastOutcomes :
       (ForecastResponse(i, o) /\ WellFormedForecast(o)) =>
         LET cur == o.body.current IN
         /\ Nearest(weather'.temperature, cur.temperature_2m)
         /\ Nearest(weather'.feelsLike, cur.apparent_temperature)
         /\ Nearest(weather'.windSpeed, cur.wind_speed_10m)
         /\ weather'.humidity = cur.relative_humidity_2m
         /\ weather'.condition = MapWeatherCode(cur.weather_code).condition
         /\ weather'.description = MapWeatherCode(cur.weather_code).description
         /\ cur = ExampleCurrent =>
              /\ weather'.temperature = Num(22)
              /\ weather'.feelsLike = Num(19)
              /\ weather'.humidity = Num(55)
              /\ weather'.windSpeed = Num(12)
              /\ weather'.condition = "Rain"
              /\ weather'.description = "Rainy"]_vars

\* the example of section 8 has been stored
C9_Witness ==
  /\ weather # Null
  /\ weather.temperature = Num(22)
  /\ weather.feelsLike = Num(19)
  /\ weather.humidity = Num(55)
  /\ weather.windSpeed = Num(12)
  /\ weather.condition = "Rain"
  /\ weather.description = "Rainy"

----------------------------------------------------------------------------
(* Section 5: overlapping lookups *)

\* the step in which invocation i ends
Completes(i) == InFlight(i) /\ ~InFlight(i)'
Succeeds(i) == \E o \in ForecastOutcomes : ForecastResponse(i, o) /\ ~ForecastThrows(o)
Fails(i) ==
  \/ \E o \in GeoOutcomes : GeoResponse(i, o) /\ GeoThrows(o)
  \/ \E o \in ForecastOutcomes : ForecastResponse(i, o) /\ ForecastThrows(o)

\* C11: if two lookups overlap, then once both have completed the displayed
\* state is what the lookup that completed last would have produced alone:
\* last success gives weather set and error empty, last failure gives error
\* set and weather null, whatever the outcome of the other.
C11_LastCompletionWins ==
  [][\A i \in Slots :
       (Completes(i) /\ lookups[i].overlapped /\ InFlightSet' = {}) =>
         /\ Succeeds(i) => (weather' # Null /\ error' = "")
         /\ Fails(i) => (error' = ErrorMessage /\ weather' = Null)]_vars

----------------------------------------------------------------------------
(* Section 5 / 7: a lookup runs to completion *)

\* every network call eventually responds or fails: the continuation of each
\* suspended invocation eventually runs
Responds(i) ==
  /\ WF_vars(\E o \in GeoOutcomes : GeoResponse(i, o))
  /\ WF_vars(\E o \in ForecastOutcomes : ForecastResponse(i, o))

SpecFair == Spec /\ \A i \in Slots : Responds(i)

\* C12: every started lookup eventually completes (each network call
\* eventually responds or fails), and once it has completed with no other
\* lookup outstanding, loading is false and the submit control is enabled.
C12_LookupCompletes ==
  /\ \A i \in Slots : InFlight(i) ~> ~InFlight(i)
  /\ [](InFlightSet = {} => (~loading /\ ~ButtonDisabled))

\* a lookup has completed (its outcome is displayed) and nothing is outstanding
C12_Witness ==
  /\ InFlightSet = {}
  /\ weather # Null \/ error # ""
  /\ ~ButtonDisabled

----------------------------------------------------------------------------
(* Section 5: the two calls of one lookup are sequential *)

HasResult(o) ==
  /\ o.kind = "json"
  /\ o.body # JsNull
  /\ o.body.results # Undefined
  /\ Len(o.body.results.elems) >= 1

\* C13: within one lookup the forecast request is issued only after the
\* geocoding answer has arrived with at least one result, with the latitude
\* and longitude of that answer's first result; no forecast request is issued
\* for a lookup whose geocoding call failed or returned no results; the two
\* requests of one lookup are never outstanding together.
C13_SequentialCalls ==
  [][\A i \in Slots :
       \* a forecast request appears only through a geocoding answer with a result
       /\ (lookups'[i].pc = "forecast" /\ lookups[i].pc # "forecast") =>
            /\ lookups[i].pc = "geo"
            /\ \E o \in GeoOutcomes : GeoResponse(i, o) /\ HasResult(o)
       \* and it carries the coordinates of the first result of that answer
       /\ \A o \in GeoOutcomes :
            (GeoResponse(i, o) /\ lookups'[i].pc = "forecast") =>
              /\ lookups'[i].request.latitude = o.body.results.elems[1].latitude
              /\ lookups'[i].request.longitude = o.body.results.elems[1].longitude
       \* a failed or empty geocoding answer ends the lookup
       /\ \A o \in GeoOutcomes :
            (GeoResponse(i, o) /\ ~HasResult(o)) => lookups'[i] = NoLookup
       \* one outstanding request per lookup, of the endpoint of its stage
       /\ lookups'[i].pc = "geo" => lookups'[i].request.endpoint = "geocoding"
       /\ lookups'[i].pc = "forecast" => lookups'[i].request.endpoint = "forecast"]_vars

\* a forecast request for Rome is outstanding
C13_Witness ==
  \E i \in Slots :
    /\ lookups[i].pc = "forecast"
    /\ lookups[i].request = [endpoint |-> "forecast", latitude |-> 42, longitude |-> 12]

----------------------------------------------------------------------------
(* Section 3: lifetime of the stored result and of the query *)

Edits == \E text \in Queries : SetCity(text)

\* C14: the stored weather value changes only at the completion of a lookup:
\* a successful completion replaces it with the new result, a failed one sets
\* it to null; starting a lookup, editing the query and a rejected blank
\* submit leave it unchanged.
C14_WeatherChangesAtCompletion ==
  [][/\ weather' # weather => \E i \in Slots : Completes(i)
     /\ \A i \in Slots : Fails(i) => weather' = Null
     /\ \A i \in Slots, o \in ForecastOutcomes :
          (ForecastResponse(i, o) /\ ~ForecastThrows(o)) =>
            /\ weather' # Null
            /\ weather'.humidity = o.body.current.relative_humidity_2m
            /\ weather'.city = lookups[i].name
     /\ (Submit \/ Edits) => weather' = weather]_vars

\* a lookup has been started over an earlier result, which is still stored
C14_Witness ==
  /\ weather # Null
  /\ \E i \in Slots : lookups[i].pc = "geo" /\ ~lookups[i].overlapped

\* C15: editing the query changes only the query: no request is issued and
\* loading, weather and error stay as they were; no lookup step (submit,
\* success completion, failure completion) changes the query text.
C15_QueryFrame ==
  [][/\ Edits => UNCHANGED <<loading, weather, error, lookups>>
     /\ (Submit \/ \E i \in Slots : Completes(i)) => city' = city]_vars

\* the query typed for a lookup is still in the input, untrimmed, after the
\* lookup has succeeded
C15_Witness ==
  /\ city = <<" ", "b", " ">>
  /\ weather # Null
  /\ InFlightSet = {}

\* C16: in every reachable state loading is true exactly when at least one
\* lookup is outstanding; loading is never false while a request of some
\* lookup is pending.
C16_LoadingIffOutstanding == loading <=> InFlightSet # {}

----------------------------------------------------------------------------
(* The query and the place of one lookup *)

DecodeChar(c) == IF c = "%20" THEN " " ELSE IF c = "%09" THEN "\t" ELSE c
\* the city a geocoding request was sent for
SentCity(req) == [k \in 1..Len(req.name) |-> DecodeChar(req.name[k])]

\* C17: a lookup uses the query text as it was at submission; editing the
\* query while the lookup is in flight changes neither the city sent in the
\* geocoding request nor the result stored at completion; the city and
\* country of a stored result come from the same lookup's geocoding answer
\* as its weather values.
C17_LookupKeepsItsQuery ==
  [][\A i \in Slots :
       \* the request carries the query of the moment of submission
       /\ (~InFlight(i) /\ InFlight(i)') => SentCity(lookups'[i].request) = city
       \* an edit touches no outstanding request and no stored result
       /\ Edits => (lookups' = lookups /\ weather' = weather)
       \* name and country are those of the answer that gave the coordinates
       /\ \A o \in GeoOutcomes :
            (GeoResponse(i, o) /\ lookups'[i].pc = "forecast") =>
              \E p \in Places :
                /\ p = o.body.results.elems[1]
                /\ lookups'[i].request.latitude = p.latitude
                /\ lookups'[i].request.longitude = p.longitude
                /\ lookups'[i].name = p.name
                /\ lookups'[i].country = p.country
       \* the stored result joins them with this lookup's forecast answer
       /\ \A o \in ForecastOutcomes :
            (ForecastResponse(i, o) /\ ~ForecastThrows(o)) =>
              /\ weather'.city = lookups[i].name
              /\ weather'.country = lookups[i].country
              /\ weather'.humidity = o.body.current.relative_humidity_2m
              /\ weather'.temperature = MathRound(o.body.current.temperature_2m)]_vars

\* the query has been edited while the request for the earlier text is pending
C17_Witness ==
  \E i \in Slots :
    /\ lookups[i].pc = "geo"
    /\ SentCity(lookups[i].request) = <<" ", "b", " ">>
    /\ city = <<"a">>

====
